---- MODULE Spec2Model ----
(***************************************************************************)
(* Model of the post-processing core of src/main.js: processPage (filter,  *)
(* scale, sort, number), saveBoundingBoxesToJson (enrich, export views)    *)
(* and buildDocumentHierarchy (stack-based forest construction), with     *)
(* extractTextWithRetry (the retry loop around one text extraction) and    *)
(* the exits of main.                                                      *)
(*                                                                         *)
(* Numbers.  Raw box coordinates are integers in the detector frame; the   *)
(* scale factor image.width / newWidth is kept as a fraction, so every     *)
(* Math.round is computed exactly.  Scores are in units of 1/10000,        *)
(* confidence (toFixed(3)) in units of 1/1000 and bbox_normalized          *)
(* (toFixed(4)) in units of 1/10000.                                       *)
(*                                                                         *)
(* Strings.  A JavaScript string is a tuple of tokens: a template literal  *)
(* `page${p}_detection${k}` is <<"page", "1", "_detection", "2">> and the  *)
(* empty string is <<>>.                                                   *)
(*                                                                         *)
(* Objects.  The nodes of the forest live in the heap `nodes`; hierarchy,  *)
(* headingStack and every children list hold references (indices) into it, *)
(* as the JavaScript arrays hold references to shared objects.             *)
(*                                                                         *)
(* The field src of a detection (and of the records copied from it) is     *)
(* auxiliary: the index of the raw prediction the record was made from.    *)
(* The code has no such field and no definition below reads it.            *)
(***************************************************************************)
EXTENDS Integers, Sequences, FiniteSets, TLC

VARIABLES
  pc,             \* position in main / processPage / saveBoundingBoxesToJson
  imagePaths,     \* main: number of page images returned by convertPdfToImages
  i,              \* main: loop index over imagePaths (0-based)
  image,          \* processPage: page image and reshaped input size
  predictions,    \* processPage: output0.tolist()[0] of the current page
  predIdx,        \* processPage: position of the for..of loop (1-based)
  detections,     \* processPage: detections of the current page
  results,        \* main: page results so far
  rawLog,         \* auxiliary: the raw predictions of every processed page
  allDetections,  \* saveBoundingBoxesToJson / buildDocumentHierarchy
  elementsByType, \* saveBoundingBoxesToJson: label -> enriched detections
  detIdx,         \* buildDocumentHierarchy: position of the forEach (1-based)
  nodes,          \* heap of heading / content / default-section objects
  hierarchy,      \* buildDocumentHierarchy: top-level forest (references)
  headingStack,   \* buildDocumentHierarchy: open headings (references)
  jsonOutput,     \* saveBoundingBoxesToJson: the assembled document
  ocrReady,       \* OCR_CONFIG.enabled && ocrWorker !== null
  resorted,       \* auxiliary: the sort of buildDocumentHierarchy moved an element
  files,          \* files written to OUTPUT_DIR
  summary,        \* main: the counts of the processing summary it prints
  region,         \* extractTextWithRetry: what it is called on
  attempt,        \* extractTextWithRetry: the loop counter
  extracted,      \* extractTextWithRetry: the value it returns
  attemptLog      \* auxiliary: what each call of extractTextFromRegion did

vars == <<pc, imagePaths, i, image, predictions, predIdx, detections, results,
          rawLog, allDetections, elementsByType, detIdx, nodes, hierarchy,
          headingStack, jsonOutput, ocrReady, resorted, files, summary,
          region, attempt, extracted, attemptLog>>

\* the variables of extractTextWithRetry taken on its own
retryVars == <<region, attempt, extracted, attemptLog>>

(***************************************************************************)
(* Bounds of the model                                                     *)
(***************************************************************************)
\* pages of a run (Spec), pages a detection may lie on (SpecHier, SpecOrder)
MaxPages == 2
\* raw predictions of one run (Spec) or of one page (SpecPage)
MaxPreds == 3
\* detections handed to buildDocumentHierarchy (SpecHier)
MaxDets == 3
\* detections handed to buildDocumentHierarchy in any order (SpecOrder)
MaxOrderDets == 3
\* detections of the page results handed to saveBoundingBoxesToJson (SpecExport)
MaxExportDets == 3

(***************************************************************************)
(* Configuration (src/main.js:44-71)                                       *)
(***************************************************************************)
\* 0.50 in units of 1/10000
CONFIDENCE_THRESHOLD == 5000

\* the literal 20 of the reading-order comparator
ROW_TOLERANCE == 20

id2label(id) ==
  CASE id = 0 -> "Caption"
    [] id = 1 -> "Footnote"
    [] id = 2 -> "Formula"
    [] id = 3 -> "List-item"
    [] id = 4 -> "Page-footer"
    [] id = 5 -> "Page-header"
    [] id = 6 -> "Picture"
    [] id = 7 -> "Section-header"
    [] id = 8 -> "Table"
    [] id = 9 -> "Text"
    [] id = 10 -> "Title"
    [] OTHER -> "Unknown"

(***************************************************************************)
(* Helpers                                                                 *)
(***************************************************************************)
Abs(x) == IF x < 0 THEN -x ELSE x

\* Math.round(num / den) for den > 0: halves round towards +Infinity
Round(num, den) == (2 * num + den) \div (2 * den)

\* sequences over S of length 0..n
SeqsUpTo(S, n) == UNION {[1..k -> S] : k \in 0..n}

\* s reordered by the permutation perm of DOMAIN s
Permuted(s, perm) == [k \in DOMAIN s |-> s[perm[k]]]

(***************************************************************************)
(* Array.prototype.sort(comparefn)                                         *)
(* The sort is stable, and its result is built from comparisons alone: in  *)
(* the result every two neighbours are in comparator order, and on a tie   *)
(* (comparefn returns 0) the one that came first in the array is first.    *)
(* With a consistent comparator exactly one permutation is like that: the  *)
(* stable sort (ECMA-262).  With an inconsistent comparator the order is   *)
(* implementation-defined; the insertion and merge steps of the engine     *)
(* (Node 20, src/Dockerfile:2) still leave every two neighbours in order,  *)
(* and every permutation that does is taken as a possible result.          *)
(***************************************************************************)
\* c[a][b] is comparefn(s[a], s[b]) for the array s being sorted: the elements
\* at positions a and b of s may be neighbours in the result, a first
NeighboursInOrder(c, a, b) ==
  \/ c[a][b] < 0
  \/ (c[a][b] = 0 /\ a < b)

\* perm is an order in which the sort may leave the elements
SortOutcome(c, perm) ==
  \A k \in 1..(Len(perm) - 1) : NeighboursInOrder(c, perm[k], perm[k + 1])

(***************************************************************************)
(* processPage: the Detection Normalizer (src/main.js:378-416)             *)
(***************************************************************************)
\* `page${pageNumber}_detection${detections.length + 1}`
DetectionId(pageNumber, k) ==
  <<"page", ToString(pageNumber), "_detection", ToString(k)>>

\* mutant: the threshold itself is dropped too
DropsAtThreshold(score) == score <= CONFIDENCE_THRESHOLD

\* if (score < CONFIDENCE_THRESHOLD) continue;
BelowThreshold(score) == score < CONFIDENCE_THRESHOLD

\* Math.round(v * xs) with xs = image.width / newWidth
ScaleRound(v, size, newSize) == Round(v * size, newSize)

\* extractTextFromRegion, one attempt (src/main.js:118-220).  ready is
\* OCR_CONFIG.enabled && ocrWorker; resp is what cropping and recognition
\* do for the region: throw, or yield the cleaned text resp.text.
extractTextFromRegion(ready, elementType, resp) ==
  IF ~ready THEN <<"[", elementType, " content - OCR not available]">>
  ELSE IF elementType = "Picture" THEN <<"[", elementType, " - image content]">>
  ELSE IF resp.throws THEN <<"[", elementType, " - OCR error]">>
  ELSE IF Len(resp.text) > 0 THEN resp.text
  ELSE <<"[", elementType, " - text extraction failed]">>

\* the marker phrases a token of a string holds: the literals of the
\* placeholders, and the phrases themselves when the recognised text has them
MarkersIn(token) ==
  CASE token = " - text extraction failed]" -> {"extraction failed"}
    [] token = " - OCR error]" -> {"OCR error"}
    [] token = " content - OCR not available]" -> {"OCR not available"}
    [] token \in {"extraction failed", "OCR error", "OCR not available"} -> {token}
    [] OTHER -> {}

\* text.includes(marker)
Includes(text, marker) == \E k \in DOMAIN text : marker \in MarkersIn(text[k])

\* text.includes("extraction failed") || text.includes("OCR error")
IncludesFailureMarker(text) ==
  Includes(text, "extraction failed") \/ Includes(text, "OCR error")

\* default value of the parameter maxRetries
maxRetries == 2

\* return `[${elementType} content (Page)]`
Fallback(elementType) == <<"[", elementType, " content (Page)]">>

\* mutant: any non-empty text is accepted
AcceptedIfNonEmpty(text) == Len(text) > 0

\* if (text && !text.includes("extraction failed") && !text.includes("OCR error"))
Accepted(text) == Len(text) > 0 /\ ~IncludesFailureMarker(text)

\* extractTextWithRetry from attempt n on: ocr[n] is the outcome of cropping
\* and recognition in that attempt
RECURSIVE RetryFrom(_, _, _, _)
RetryFrom(ready, elementType, ocr, n) ==
  IF n > maxRetries THEN Fallback(elementType)
  ELSE LET text == extractTextFromRegion(ready, elementType, ocr[n]) IN
       IF Accepted(text) THEN text
       ELSE RetryFrom(ready, elementType, ocr, n + 1)

extractTextWithRetry(ready, elementType, ocr) == RetryFrom(ready, elementType, ocr, 1)

\* the body of the for..of loop after the threshold test
MakeDetection(raw, img, pageNumber, k, ready, srcIdx) ==
  LET bbox == << ScaleRound(raw.xmin, img.width, img.newWidth),
                 ScaleRound(raw.ymin, img.height, img.newHeight),
                 ScaleRound(raw.xmax, img.width, img.newWidth),
                 ScaleRound(raw.ymax, img.height, img.newHeight) >>
      label == id2label(raw.id)
  IN [ id |-> DetectionId(pageNumber, k),
       bbox |-> bbox,
       bbox_normalized |-> << Round(bbox[1] * 10000, img.width),
                              Round(bbox[2] * 10000, img.height),
                              Round(bbox[3] * 10000, img.width),
                              Round(bbox[4] * 10000, img.height) >>,
       label |-> label,
       confidence |-> Round(raw.score, 10),
       area |-> (bbox[3] - bbox[1]) * (bbox[4] - bbox[2]),
       center |-> << Round(bbox[1] + bbox[3], 2), Round(bbox[2] + bbox[4], 2) >>,
       width |-> bbox[3] - bbox[1],
       height |-> bbox[4] - bbox[2],
       extractedText |-> extractTextWithRetry(ready, label, raw.ocr),
       reading_order |-> 0,
       src |-> srcIdx ]

(***************************************************************************)
(* processPage: the Reading-Order Sequencer (src/main.js:420-430)          *)
(***************************************************************************)
\* mutant: the operands of the same-row comparison swapped
CompareSameRowSwapped(a, b) ==
  LET yDiff == a.center[2] - b.center[2] IN
  IF Abs(yDiff) > ROW_TOLERANCE THEN yDiff ELSE b.center[1] - a.center[1]

ReadingOrderCompare(a, b) ==
  LET yDiff == a.center[2] - b.center[2] IN
  IF Abs(yDiff) > ROW_TOLERANCE THEN yDiff ELSE a.center[1] - b.center[1]

\* mutant: the 0-based index itself
ReadingOrderZeroBased(index) == index

\* detection.reading_order = index + 1 (index is 0-based in the code)
ReadingOrderOf(index) == index + 1

AssignReadingOrder(s) ==
  [k \in DOMAIN s |-> [s[k] EXCEPT !.reading_order = ReadingOrderOf(k - 1)]]

(***************************************************************************)
(* Inputs: page images and raw predictions                                 *)
(***************************************************************************)
\* RawImage.read and the processor: a 150 x 200 page reshaped to 100 x 100,
\* so xs = 3/2 and ys = 2
PageImages == { [width |-> 150, height |-> 200, newWidth |-> 100, newHeight |-> 100] }

\* recognition yields the same text in every attempt
OcrYields(text) == [a \in 1..maxRetries |-> [throws |-> FALSE, text |-> text]]

\* SpecPage: Text boxes on a 3 x 3 grid of centers (10, 21, 30) x (10, 24, 40),
\* two boxes of degenerate geometry and one prediction under the threshold
RawPage ==
  { [xmin |-> x, ymin |-> y, xmax |-> x + 13, ymax |-> y + 10,
     score |-> 9000, id |-> 9, ocr |-> OcrYields(<<"body">>)] :
       x \in {0, 7, 13}, y \in {0, 7, 15} }
  \cup
  { [xmin |-> 7, ymin |-> 0, xmax |-> 7, ymax |-> 10,
     score |-> 9000, id |-> 9, ocr |-> OcrYields(<<"body">>)],
    [xmin |-> 0, ymin |-> 15, xmax |-> 13, ymax |-> 7,
     score |-> 9000, id |-> 9, ocr |-> OcrYields(<<"body">>)],
    [xmin |-> 0, ymin |-> 0, xmax |-> 13, ymax |-> 10,
     score |-> 4999, id |-> 9, ocr |-> OcrYields(<<"body">>)] }

\* raw predictions consumed by the pages processed so far
RECURSIVE Consumed(_)
Consumed(log) == IF log = <<>> THEN 0 ELSE Len(Head(log)) + Consumed(Tail(log))

(***************************************************************************)
(* processPage (src/main.js:356-457)                                       *)
(***************************************************************************)
InitCommon ==
  /\ i = 0
  /\ image = [width |-> 1, height |-> 1, newWidth |-> 1, newHeight |-> 1]
  /\ predictions = <<>>
  /\ predIdx = 1
  /\ detections = <<>>
  /\ results = <<>>
  /\ rawLog = <<>>
  /\ elementsByType = <<>>
  /\ detIdx = 1
  /\ nodes = <<>>
  /\ hierarchy = <<>>
  /\ headingStack = <<>>
  /\ jsonOutput = <<>>
  /\ resorted = FALSE
  /\ files = {}
  /\ summary = <<>>
  /\ attempt = 1
  /\ extracted = <<>>
  /\ attemptLog = <<>>

\* main calls processPage(model, processor, imagePaths[i], i + 1): the image
\* is read and the model run; Universe is what the detector may return
StartPage(Universe) ==
  /\ pc = "main_loop"
  /\ i < imagePaths
  /\ \E img \in PageImages :
     \E preds \in SeqsUpTo(Universe, MaxPreds - Consumed(rawLog)) :
       /\ image' = img
       /\ predictions' = preds
       /\ rawLog' = Append(rawLog, preds)
  /\ predIdx' = 1
  /\ detections' = <<>>
  /\ pc' = "page_loop"
  /\ UNCHANGED <<imagePaths, i, results, allDetections, elementsByType, detIdx,
                 nodes, hierarchy, headingStack, jsonOutput, ocrReady, resorted, files>>
  /\ UNCHANGED <<summary, retryVars>>

\* one iteration of for (const [xmin, ymin, xmax, ymax, score, id] of predictions)
ProcessPrediction ==
  /\ pc = "page_loop"
  /\ predIdx <= Len(predictions)
  /\ detections' =
       IF BelowThreshold(predictions[predIdx].score) THEN detections
       ELSE Append(detections,
                   MakeDetection(predictions[predIdx], image, i + 1,
                                 Len(detections) + 1, ocrReady, predIdx))
  /\ predIdx' = predIdx + 1
  /\ UNCHANGED <<pc, imagePaths, i, image, predictions, results, rawLog,
                 allDetections, elementsByType, detIdx, nodes, hierarchy,
                 headingStack, jsonOutput, ocrReady, resorted, files>>
  /\ UNCHANGED <<summary, retryVars>>

\* what processPage returns (processingTime and the two paths are left out)
PageResult(pageNumber, dets, img) ==
  [ pageNumber |-> pageNumber,
    detections |-> dets,
    imageWidth |-> img.width,
    imageHeight |-> img.height ]

\* after the loop: detections.sort(...), detections.forEach(reading_order),
\* return; main pushes the result and advances i
FinishPage ==
  /\ pc = "page_loop"
  /\ predIdx > Len(predictions)
  /\ \E perm \in Permutations(DOMAIN detections) :
       /\ SortOutcome([a \in DOMAIN detections |-> [b \in DOMAIN detections |->
                         ReadingOrderCompare(detections[a], detections[b])]], perm)
       /\ detections' = AssignReadingOrder(Permuted(detections, perm))
  /\ results' = Append(results, PageResult(i + 1, detections', image))
  /\ i' = i + 1
  /\ pc' = "main_loop"
  /\ UNCHANGED <<imagePaths, image, predictions, predIdx, rawLog, allDetections,
                 elementsByType, detIdx, nodes, hierarchy, headingStack,
                 jsonOutput, ocrReady, resorted, files>>
  /\ UNCHANGED <<summary, retryVars>>

(***************************************************************************)
(* SpecRetry: extractTextWithRetry on one region, attempt by attempt       *)
(* (src/main.js:223-250).  Each await of the loop settles: cropping and    *)
(* recognition return or throw, and the timer of the retry delay fires, so *)
(* the loop always takes its next step.                                    *)
(***************************************************************************)
\* what cropping and recognition may do in one attempt: throw, recognise no
\* text, recognise text, recognise text that holds one of the marker phrases
OcrResponses ==
  { [throws |-> TRUE, text |-> <<>>],
    [throws |-> FALSE, text |-> <<>>],
    [throws |-> FALSE, text |-> <<"body">>],
    [throws |-> FALSE, text |-> <<"see ", "OCR error">>],
    [throws |-> FALSE, text |-> <<"OCR not available">>] }

RetryLabels == {"Text", "Picture", "Unknown"}

\* one iteration of for (let attempt = 1; attempt <= maxRetries; attempt++)
RetryAttempt ==
  /\ pc = "retry_loop"
  /\ attempt <= maxRetries
  /\ LET text == extractTextFromRegion(ocrReady, region.elementType, region.ocr[attempt])
     IN /\ attemptLog' = Append(attemptLog, text)
        /\ IF Accepted(text)
           THEN /\ extracted' = text
                /\ pc' = "retry_done"
                /\ attempt' = attempt
           ELSE /\ attempt' = attempt + 1
                /\ UNCHANGED <<pc, extracted>>
  /\ UNCHANGED <<imagePaths, i, image, predictions, predIdx, detections, results,
                 rawLog, allDetections, elementsByType, detIdx, nodes, hierarchy,
                 headingStack, jsonOutput, ocrReady, resorted, files, summary, region>>

\* the loop has ended: return the fallback
RetryFallback ==
  /\ pc = "retry_loop"
  /\ attempt > maxRetries
  /\ extracted' = Fallback(region.elementType)
  /\ pc' = "retry_done"
  /\ UNCHANGED <<imagePaths, i, image, predictions, predIdx, detections, results,
                 rawLog, allDetections, elementsByType, detIdx, nodes, hierarchy,
                 headingStack, jsonOutput, ocrReady, resorted, files, summary, region,
                 attempt, attemptLog>>

InitRetry ==
  /\ InitCommon
  /\ allDetections = <<>>
  /\ pc = "retry_loop"
  /\ imagePaths = 1
  /\ ocrReady \in BOOLEAN
  /\ \E elementType \in RetryLabels :
     \E ocr \in [1..maxRetries -> OcrResponses] :
       region = [elementType |-> elementType, ocr |-> ocr]

NextRetry == RetryAttempt \/ RetryFallback

SpecRetry == InitRetry /\ [][NextRetry]_vars /\ WF_vars(NextRetry)

(***************************************************************************)
(* SpecPage: processPage on one page, over RawPage                         *)
(***************************************************************************)
InitPage ==
  /\ InitCommon
  /\ allDetections = <<>>
  /\ pc = "main_loop"
  /\ imagePaths = 1
  /\ ocrReady = TRUE
  /\ region = <<>>

NextPage == StartPage(RawPage) \/ ProcessPrediction \/ FinishPage

SpecPage == InitPage /\ [][NextPage]_vars

(***************************************************************************)
(* buildDocumentHierarchy (src/main.js:646-744)                            *)
(***************************************************************************)
\* mutant: the page is not compared
CompareReadingOrderOnly(a, b) == a.reading_order - b.reading_order

\* the comparator of detections.sort: by page, then by reading order
HierarchyCompare(a, b) ==
  IF a.pageNumber # b.pageNumber THEN a.pageNumber - b.pageNumber
  ELSE a.reading_order - b.reading_order

\* const headingLevels = {...}; "" stands for undefined (not a heading)
headingLevels(label) ==
  CASE label = "Title" -> "H1"
    [] label = "Section-header" -> "H2"
    [] label = "Page-header" -> "H3"
    [] label = "Caption" -> "H4"
    [] OTHER -> ""

\* mutant: only a Title is a heading
IsTitleLabel(label) == label = "Title"

\* if (headingLevels[label])
IsHeadingLabel(label) == headingLevels(label) # ""

\* parseInt(level.replace("H", ""))
LevelNum(level) ==
  CASE level = "H1" -> 1
    [] level = "H2" -> 2
    [] level = "H3" -> 3
    [] level = "H4" -> 4

\* label.toLowerCase().replace("-", "_")
TypeOf(label) ==
  CASE label = "Text" -> "text"
    [] label = "Table" -> "table"
    [] label = "List-item" -> "list_item"
    [] label = "Picture" -> "picture"
    [] label = "Formula" -> "formula"
    [] label = "Footnote" -> "footnote"
    [] label = "Page-footer" -> "page_footer"
    [] label = "Unknown" -> "unknown"
    [] label = "Title" -> "title"
    [] label = "Section-header" -> "section_header"
    [] label = "Page-header" -> "page_header"
    [] label = "Caption" -> "caption"

\* extractedText || fallback
OrFallback(text, fallback) == IF Len(text) > 0 THEN text ELSE fallback

HeadingNode(detection) ==
  [ id |-> detection.id,
    title |-> OrFallback(detection.extractedText,
                         <<detection.label, " (Page ", ToString(detection.pageNumber), ")">>),
    level |-> headingLevels(detection.label),
    page |-> detection.pageNumber,
    bbox |-> detection.bbox,
    bbox_normalized |-> detection.bbox_normalized,
    confidence |-> detection.confidence,
    children |-> <<>>,
    src |-> detection.src ]

ContentNode(detection) ==
  [ id |-> detection.id,
    type |-> TypeOf(detection.label),
    content |-> OrFallback(detection.extractedText,
                           <<detection.label, " content (Page ",
                             ToString(detection.pageNumber), ")">>),
    bbox |-> detection.bbox,
    bbox_normalized |-> detection.bbox_normalized,
    page |-> detection.pageNumber,
    confidence |-> detection.confidence,
    width |-> detection.width,
    height |-> detection.height,
    area |-> detection.area,
    reading_order |-> detection.reading_order,
    src |-> detection.src ]

\* the default section made for a content node met with an empty stack
DefaultSection(pageNumber, contentRef) ==
  [ id |-> <<"default_section_page_", ToString(pageNumber)>>,
    title |-> <<"Content (Page ", ToString(pageNumber), ")">>,
    level |-> "H1",
    page |-> pageNumber,
    children |-> <<contentRef>> ]

\* mutant: a heading of the same level is left on the stack
ShouldPopDeeperOnly(topLevel, levelNum) == LevelNum(topLevel) > levelNum

\* the test of the while loop on the top of a non-empty stack
ShouldPop(topLevel, levelNum) == LevelNum(topLevel) >= levelNum

\* while (headingStack.length > 0 && top.level >= levelNum) headingStack.pop()
RECURSIVE PopHeadings(_, _, _)
PopHeadings(heap, stack, levelNum) ==
  IF Len(stack) > 0 /\ ShouldPop(heap[stack[Len(stack)]].level, levelNum)
  THEN PopHeadings(heap, SubSeq(stack, 1, Len(stack) - 1), levelNum)
  ELSE stack

\* mutant: the bottom of the stack
StackBottom(stack) == stack[1]

\* headingStack[headingStack.length - 1]
StackTop(stack) == stack[Len(stack)]

\* mutant: children.unshift(node)
UnshiftChild(children, ref) == <<ref>> \o children

\* children.push(node)
PushChild(children, ref) == Append(children, ref)

\* mutant: headingStack.length > 1
HasSecondHeading(stack) == Len(stack) > 1

\* if (headingStack.length > 0) for a content node
HasCurrentHeading(stack) == Len(stack) > 0

\* mutant: the node is not put on the stack
PushNothing(stack, ref) == stack

\* headingStack.push(node)
PushHeading(stack, ref) == Append(stack, ref)

\* one call of the forEach callback on the builder state
\* b = [nodes, hierarchy, headingStack]
HierarchyStep(b, detection) ==
  LET ref == Len(b.nodes) + 1 IN
  IF IsHeadingLabel(detection.label)
  THEN LET levelNum == LevelNum(headingLevels(detection.label))
           heap == Append(b.nodes, HeadingNode(detection))
           stack == PopHeadings(heap, b.headingStack, levelNum)
       IN IF Len(stack) = 0
          THEN [ nodes |-> heap,
                 hierarchy |-> Append(b.hierarchy, ref),
                 headingStack |-> PushHeading(stack, ref) ]
          ELSE [ nodes |-> [heap EXCEPT ![StackTop(stack)].children = PushChild(@, ref)],
                 hierarchy |-> b.hierarchy,
                 headingStack |-> PushHeading(stack, ref) ]
  ELSE LET heap == Append(b.nodes, ContentNode(detection)) IN
       IF HasCurrentHeading(b.headingStack)
       THEN [ nodes |-> [heap EXCEPT ![StackTop(b.headingStack)].children = PushChild(@, ref)],
              hierarchy |-> b.hierarchy,
              headingStack |-> b.headingStack ]
       ELSE [ nodes |-> Append(heap, DefaultSection(detection.pageNumber, ref)),
              hierarchy |-> Append(b.hierarchy, ref + 1),
              headingStack |-> PushHeading(b.headingStack, ref + 1) ]

\* const sortedDetections = detections.sort(...): sorts the caller's array
\* (allDetections) in place; hierarchy and headingStack start empty
BuildSort ==
  /\ pc = "build_sort"
  /\ \E perm \in Permutations(DOMAIN allDetections) :
       /\ SortOutcome([a \in DOMAIN allDetections |-> [b \in DOMAIN allDetections |->
                         HierarchyCompare(allDetections[a], allDetections[b])]], perm)
       /\ allDetections' = Permuted(allDetections, perm)
  /\ resorted' = (allDetections' # allDetections)
  /\ nodes' = <<>>
  /\ hierarchy' = <<>>
  /\ headingStack' = <<>>
  /\ detIdx' = 1
  /\ pc' = "build_loop"
  /\ UNCHANGED <<imagePaths, i, image, predictions, predIdx, detections, results,
                 rawLog, elementsByType, jsonOutput, ocrReady, files>>
  /\ UNCHANGED <<summary, retryVars>>

\* one iteration of sortedDetections.forEach
BuildStep ==
  /\ pc = "build_loop"
  /\ detIdx <= Len(allDetections)
  /\ LET b == HierarchyStep([nodes |-> nodes, hierarchy |-> hierarchy,
                             headingStack |-> headingStack],
                            allDetections[detIdx])
     IN /\ nodes' = b.nodes
        /\ hierarchy' = b.hierarchy
        /\ headingStack' = b.headingStack
  /\ detIdx' = detIdx + 1
  /\ UNCHANGED <<pc, imagePaths, i, image, predictions, predIdx, detections,
                 results, rawLog, allDetections, elementsByType, jsonOutput,
                 ocrReady, resorted, files>>
  /\ UNCHANGED <<summary, retryVars>>

\* buildDocumentHierarchy as a function of the array it is given: the heap
\* and the forest after the whole forEach
RECURSIVE FoldSteps(_, _)
FoldSteps(b, dets) ==
  IF dets = <<>> THEN b ELSE FoldSteps(HierarchyStep(b, Head(dets)), Tail(dets))

buildDocumentHierarchy(dets) ==
  LET perm == CHOOSE q \in Permutations(DOMAIN dets) :
                SortOutcome([a \in DOMAIN dets |-> [b \in DOMAIN dets |->
                               HierarchyCompare(dets[a], dets[b])]], q)
      b == FoldSteps([nodes |-> <<>>, hierarchy |-> <<>>, headingStack |-> <<>>],
                     Permuted(dets, perm))
  IN [nodes |-> b.nodes, hierarchy |-> b.hierarchy]

(***************************************************************************)
(* SpecHier: buildDocumentHierarchy on every detection sequence in         *)
(* document order; SpecOrder: on the same detections in every order        *)
(***************************************************************************)
HierLabels == {"Title", "Section-header", "Page-header", "Caption", "Text", "Table"}

\* an enriched detection as saveBoundingBoxesToJson hands it over: the k-th
\* detection of its page in reading order, with the geometry of a 20 x 20 box
\* in row k
HierDetection(label, pageNumber, k) ==
  [ id |-> DetectionId(pageNumber, k),
    bbox |-> <<0, 30 * k, 20, 30 * k + 20>>,
    bbox_normalized |-> <<0, 1500 * k, 1333, 1500 * k + 1000>>,
    label |-> label,
    confidence |-> 900,
    area |-> 400,
    center |-> <<10, 30 * k + 10>>,
    width |-> 20,
    height |-> 20,
    extractedText |-> <<"ocr text">>,
    reading_order |-> k,
    src |-> k,
    pageNumber |-> pageNumber,
    pageWidth |-> 150,
    pageHeight |-> 200 ]

\* the detections in document order: labels[k] on page pages[k], pages
\* non-decreasing, reading_order counting from 1 within each page
DocumentOf(labels, pages) ==
  [k \in DOMAIN labels |->
     HierDetection(labels[k], pages[k],
                   Cardinality({j \in 1..k : pages[j] = pages[k]}))]

\* SpecOrder: one heading of each of two levels and one content label
OrderLabels == {"Title", "Section-header", "Text"}

Documents(labelSet, maxLen) ==
  UNION { { DocumentOf(labels, pages) :
              labels \in [1..n -> labelSet],
              pages \in {f \in [1..n -> 1..MaxPages] :
                           \A k \in 1..(n - 1) : f[k] <= f[k + 1]} } :
          n \in 0..maxLen }

InitBuild ==
  /\ InitCommon
  /\ pc = "build_sort"
  /\ imagePaths = 1
  /\ ocrReady = TRUE
  /\ region = <<>>

InitHier ==
  /\ \E doc \in Documents(HierLabels, MaxDets) : allDetections = doc
  /\ InitBuild

InitOrder ==
  /\ \E doc \in Documents(OrderLabels, MaxOrderDets) :
     \E perm \in Permutations(DOMAIN doc) : allDetections = Permuted(doc, perm)
  /\ InitBuild

NextHier == BuildSort \/ BuildStep

SpecHier == InitHier /\ [][NextHier]_vars

SpecOrder == InitOrder /\ [][NextHier]_vars

(***************************************************************************)
(* saveBoundingBoxesToJson (src/main.js:508-643)                           *)
(***************************************************************************)
\* { ...r1, ...r2 }
Spread(r1, r2) ==
  [k \in DOMAIN r1 \cup DOMAIN r2 |-> IF k \in DOMAIN r2 THEN r2[k] ELSE r1[k]]

\* the detection with its page context (the two image paths are left out)
EnrichedDetection(detection, pageResult) ==
  Spread(detection, [ pageNumber |-> pageResult.pageNumber,
                      pageWidth |-> pageResult.imageWidth,
                      pageHeight |-> pageResult.imageHeight ])

\* results.forEach(pageResult => pageResult.detections.forEach(... push ...))
RECURSIVE EnrichAll(_)
EnrichAll(res) ==
  IF res = <<>> THEN <<>>
  ELSE [k \in DOMAIN Head(res).detections |->
          EnrichedDetection(Head(res).detections[k], Head(res))]
       \o EnrichAll(Tail(res))

\* elementsByType[label].push(enrichedDetection), a key per label met
GroupByLabel(dets) ==
  [l \in {dets[k].label : k \in DOMAIN dets} |->
     SelectSeq(dets, LAMBDA d : d.label = l)]

\* the filter of main's text-extraction counts
IsTextExtraction(d) ==
  /\ Len(d.extractedText) > 0
  /\ ~Includes(d.extractedText, "OCR not available")
  /\ ~Includes(d.extractedText, "extraction failed")

\* results.reduce((sum, r) => sum + r.detections.length, 0)
RECURSIVE totalElements(_)
totalElements(res) ==
  IF res = <<>> THEN 0 ELSE Len(Head(res).detections) + totalElements(Tail(res))

\* results.reduce((sum, r) => sum + r.detections.filter(...).length, 0)
RECURSIVE totalTextExtractions(_)
totalTextExtractions(res) ==
  IF res = <<>> THEN 0
  ELSE Len(SelectSeq(Head(res).detections, IsTextExtraction))
       + totalTextExtractions(Tail(res))

\* the counts of the processing summary; the line of successful text
\* extractions is printed only if (OCR_CONFIG.enabled)
Summary(res, enabled) ==
  IF enabled
  THEN [ totalElements |-> totalElements(res),
         totalTextExtractions |-> totalTextExtractions(res) ]
  ELSE [ totalElements |-> totalElements(res) ]

\* main, after its loop: the processing summary, then
\* saveBoundingBoxesToJson(results, totalTime) up to the call of
\* buildDocumentHierarchy(allDetections).  OCR_CONFIG.enabled holds whenever
\* the worker is ready, and may hold without a worker (createWorker failed).
SaveEnrich ==
  /\ pc = "main_loop"
  /\ i = imagePaths
  /\ \E enabled \in {e \in BOOLEAN : ocrReady => e} :
       summary' = Summary(results, enabled)
  /\ allDetections' = EnrichAll(results)
  /\ elementsByType' = GroupByLabel(allDetections')
  /\ pc' = "build_sort"
  /\ UNCHANGED <<imagePaths, i, image, predictions, predIdx, detections, results,
                 rawLog, detIdx, nodes, hierarchy, headingStack, jsonOutput,
                 ocrReady, resorted, files>>
  /\ UNCHANGED retryVars

\* elementsByType[label] || []
ByType(groups, label) == IF label \in DOMAIN groups THEN groups[label] ELSE <<>>

\* mutant: every record is tagged high
SuggestionTaggedHigh(det, priority) ==
  [ id |-> det.id,
    pageNumber |-> det.pageNumber,
    bbox |-> det.bbox,
    bbox_normalized |-> det.bbox_normalized,
    priority |-> "high",
    src |-> det.src ]

\* mutant: only the keys of the labels that were met
SuggestionsOfMetLabels(groups) ==
  LET met == [ textElements |-> ByType(groups, "Text"),
               titleElements |-> ByType(groups, "Title"),
               tableElements |-> ByType(groups, "Table"),
               listElements |-> ByType(groups, "List-item") ]
  IN [key \in {k \in DOMAIN met : met[k] # <<>>} |-> met[key]]

\* the reduced record of ocrProcessingSuggestions
Suggestion(det, priority) ==
  [ id |-> det.id,
    pageNumber |-> det.pageNumber,
    bbox |-> det.bbox,
    bbox_normalized |-> det.bbox_normalized,
    priority |-> priority,
    src |-> det.src ]

Suggestions(groups) ==
  [ textElements |->
      [k \in DOMAIN ByType(groups, "Text") |->
         Suggestion(ByType(groups, "Text")[k], "high")],
    titleElements |->
      [k \in DOMAIN ByType(groups, "Title") |->
         Suggestion(ByType(groups, "Title")[k], "highest")],
    tableElements |->
      [k \in DOMAIN ByType(groups, "Table") |->
         Spread(Suggestion(ByType(groups, "Table")[k], "high"),
                [processingNote |->
                   <<"Use table-specific OCR for better structure recognition">>])],
    listElements |->
      [k \in DOMAIN ByType(groups, "List-item") |->
         Suggestion(ByType(groups, "List-item")[k], "medium")] ]

\* the pages view: each page result with pageNumber added to its detections
PageView(pageResult) ==
  [ pageNumber |-> pageResult.pageNumber,
    imageWidth |-> pageResult.imageWidth,
    imageHeight |-> pageResult.imageHeight,
    detectionsCount |-> Len(pageResult.detections),
    detections |->
      [k \in DOMAIN pageResult.detections |->
         Spread(pageResult.detections[k], [pageNumber |-> pageResult.pageNumber])] ]

\* JSON.stringify of a node: its children lists hold the nodes themselves
RECURSIVE NodeTree(_, _)
NodeTree(heap, ref) ==
  IF "children" \in DOMAIN heap[ref]
  THEN [heap[ref] EXCEPT !.children = [k \in DOMAIN @ |-> NodeTree(heap, @[k])]]
  ELSE heap[ref]

\* const jsonOutput = {...} (the time, date and path fields are left out)
JsonOutput(res, dets, groups, heap, forest) ==
  [ metadata |->
      [ totalPages |-> Len(res),
        totalDetections |-> Len(dets),
        confidence_threshold |-> CONFIDENCE_THRESHOLD,
        elementTypeCounts |-> [l \in DOMAIN groups |-> Len(groups[l])] ],
    documentStructure |-> [k \in DOMAIN forest |-> NodeTree(heap, forest[k])],
    allDetections |-> dets,
    pages |-> [k \in DOMAIN res |-> PageView(res[k])],
    ocrProcessingSuggestions |-> Suggestions(groups) ]

\* one row of detections_summary.csv, by column
CsvRow(det) ==
  [ Page |-> det.pageNumber,
    Element_Type |-> det.label,
    Confidence |-> det.confidence,
    X_Min |-> det.bbox[1],
    Y_Min |-> det.bbox[2],
    X_Max |-> det.bbox[3],
    Y_Max |-> det.bbox[4],
    Width |-> det.width,
    Height |-> det.height,
    Area |-> det.area,
    Reading_Order |-> det.reading_order,
    src |-> det.src ]

\* buildDocumentHierarchy returns; jsonOutput is assembled
AssembleJson ==
  /\ pc = "build_loop"
  /\ detIdx > Len(allDetections)
  /\ jsonOutput' = JsonOutput(results, allDetections, elementsByType, nodes, hierarchy)
  /\ pc' = "write_json"
  /\ UNCHANGED <<imagePaths, i, image, predictions, predIdx, detections, results,
                 rawLog, allDetections, elementsByType, detIdx, nodes, hierarchy,
                 headingStack, ocrReady, resorted, files>>
  /\ UNCHANGED <<summary, retryVars>>

\* await fs.writeFile(jsonPath, JSON.stringify(jsonOutput, null, 2))
WriteJson ==
  /\ pc = "write_json"
  /\ files' = files \cup { [ name |-> "document_layout_analysis.json",
                             content |-> jsonOutput ] }
  /\ pc' = "write_csv"
  /\ UNCHANGED <<imagePaths, i, image, predictions, predIdx, detections, results,
                 rawLog, allDetections, elementsByType, detIdx, nodes, hierarchy,
                 headingStack, jsonOutput, ocrReady, resorted>>
  /\ UNCHANGED <<summary, retryVars>>

\* await fs.writeFile(csvPath, csvHeaders + csvRows)
WriteCsv ==
  /\ pc = "write_csv"
  /\ files' = files \cup { [ name |-> "detections_summary.csv",
                             content |-> [k \in DOMAIN allDetections |->
                                            CsvRow(allDetections[k])] ] }
  /\ pc' = "saved"
  /\ UNCHANGED <<imagePaths, i, image, predictions, predIdx, detections, results,
                 rawLog, allDetections, elementsByType, detIdx, nodes, hierarchy,
                 headingStack, jsonOutput, ocrReady, resorted>>
  /\ UNCHANGED <<summary, retryVars>>

(***************************************************************************)
(* SpecExport: saveBoundingBoxesToJson on every list of page results of up *)
(* to MaxPages pages (the empty list included: the function takes any      *)
(* list) and MaxExportDets detections                                      *)
(***************************************************************************)
\* the four labels with a suggestions key and one without
ExportLabels == {"Text", "Title", "Table", "List-item", "Picture"}

\* a detection as processPage returns it: the k-th of its page
PageDetection(label, pageNumber, k) ==
  LET d == HierDetection(label, pageNumber, k)
  IN [f \in DOMAIN d \ {"pageNumber", "pageWidth", "pageHeight"} |-> d[f]]

\* the results of the n pages of the document doc (detections in document
\* order): page p holds the detections of doc that lie on it
ExportResults(doc, n) ==
  [p \in 1..n |->
     LET onPage == SelectSeq(doc, LAMBDA d : d.pageNumber = p)
     IN PageResult(p, [k \in DOMAIN onPage |-> PageDetection(onPage[k].label, p, k)],
                   [width |-> 150, height |-> 200])]

InitExport ==
  /\ \E doc \in Documents(ExportLabels, MaxExportDets) :
     \E n \in 0..MaxPages :
       /\ \A k \in DOMAIN doc : doc[k].pageNumber <= n
       /\ results = ExportResults(doc, n)
       /\ imagePaths = n
       /\ i = n
  /\ pc = "main_loop"
  /\ ocrReady = TRUE
  /\ image = [width |-> 1, height |-> 1, newWidth |-> 1, newHeight |-> 1]
  /\ predictions = <<>>
  /\ predIdx = 1
  /\ detections = <<>>
  /\ rawLog = <<>>
  /\ allDetections = <<>>
  /\ elementsByType = <<>>
  /\ detIdx = 1
  /\ nodes = <<>>
  /\ hierarchy = <<>>
  /\ headingStack = <<>>
  /\ jsonOutput = <<>>
  /\ resorted = FALSE
  /\ files = {}
  /\ summary = <<>>
  /\ region = <<>>
  /\ attempt = 1
  /\ extracted = <<>>
  /\ attemptLog = <<>>

NextExport ==
  \/ SaveEnrich
  \/ BuildSort
  \/ BuildStep
  \/ AssembleJson
  \/ WriteJson
  \/ WriteCsv

SpecExport == InitExport /\ [][NextExport]_vars

(***************************************************************************)
(* main: the end of the run (src/main.js:919-927)                          *)
(* Whatever is thrown inside main's try block is caught at its end: the    *)
(* worker is cleaned up and the process exits with code 1.  A write that   *)
(* throws is taken to leave no file behind.                                *)
(***************************************************************************)
pipeVars ==
  <<imagePaths, i, image, predictions, predIdx, detections, results, rawLog,
    allDetections, elementsByType, detIdx, nodes, hierarchy, headingStack,
    jsonOutput, ocrReady, resorted, summary>>

\* mutant: a best-effort document of the pages done so far is written
PageThrowsBestEffort ==
  /\ \/ pc = "main_loop" /\ i < imagePaths
     \/ pc = "page_loop"
  /\ files' = files \cup
       { [ name |-> "document_layout_analysis.json",
           content |-> JsonOutput(results, EnrichAll(results),
                                  GroupByLabel(EnrichAll(results)), <<>>, <<>>) ] }
  /\ pc' = "exit_1"
  /\ UNCHANGED <<pipeVars, retryVars>>

\* processPage throws (reading the image, the model, the annotated image)
\* and rethrows; main's catch ends the run
PageThrows ==
  /\ \/ pc = "main_loop" /\ i < imagePaths
     \/ pc = "page_loop"
  /\ pc' = "exit_1"
  /\ UNCHANGED <<pipeVars, files, retryVars>>

\* fs.writeFile(jsonPath, ...) rejects: saveBoundingBoxesToJson rethrows
WriteJsonThrows ==
  /\ pc = "write_json"
  /\ pc' = "exit_1"
  /\ UNCHANGED <<pipeVars, files, retryVars>>

\* fs.writeFile(csvPath, ...) rejects: saveBoundingBoxesToJson rethrows
WriteCsvThrows ==
  /\ pc = "write_csv"
  /\ pc' = "exit_1"
  /\ UNCHANGED <<pipeVars, files, retryVars>>

\* cleanupOCRWorker() and fs.rm(TEMP_DIR, ...) at the end of the try block
Cleanup ==
  /\ pc = "saved"
  /\ pc' = "exit_0"
  /\ UNCHANGED <<pipeVars, files, retryVars>>

\* fs.rm(TEMP_DIR, ...) rejects
CleanupThrows ==
  /\ pc = "saved"
  /\ pc' = "exit_1"
  /\ UNCHANGED <<pipeVars, files, retryVars>>

(***************************************************************************)
(* Spec: a run of main over RawPipe, from the page loop to its exit        *)
(***************************************************************************)
\* a Title, a Text whose score is the threshold itself, a Table just under
\* the threshold, a Picture, and a Section-header on which the first attempt
\* throws and the second recognises no text
RawPipe ==
  { [xmin |-> 0, ymin |-> 0, xmax |-> 13, ymax |-> 10,
     score |-> 9000, id |-> 10, ocr |-> OcrYields(<<"Intro">>)],
    [xmin |-> 0, ymin |-> 15, xmax |-> 13, ymax |-> 25,
     score |-> 5000, id |-> 9, ocr |-> OcrYields(<<"body">>)],
    [xmin |-> 7, ymin |-> 15, xmax |-> 20, ymax |-> 25,
     score |-> 4999, id |-> 8, ocr |-> OcrYields(<<"cells">>)],
    [xmin |-> 13, ymin |-> 0, xmax |-> 26, ymax |-> 10,
     score |-> 7500, id |-> 6, ocr |-> OcrYields(<<>>)],
    [xmin |-> 0, ymin |-> 30, xmax |-> 13, ymax |-> 40,
     score |-> 8000, id |-> 7,
     ocr |-> <<[throws |-> TRUE, text |-> <<>>], [throws |-> FALSE, text |-> <<>>]>>] }

Init ==
  /\ InitCommon
  /\ allDetections = <<>>
  /\ pc = "main_loop"
  /\ imagePaths \in 1..MaxPages
  /\ ocrReady \in BOOLEAN
  /\ region = <<>>

Next ==
  \/ StartPage(RawPipe)
  \/ ProcessPrediction
  \/ FinishPage
  \/ SaveEnrich
  \/ BuildSort
  \/ BuildStep
  \/ AssembleJson
  \/ WriteJson
  \/ WriteCsv
  \/ PageThrows
  \/ WriteJsonThrows
  \/ WriteCsvThrows
  \/ Cleanup
  \/ CleanupThrows

Spec == Init /\ [][Next]_vars

(***************************************************************************)
(* Properties of processPage                                               *)
(***************************************************************************)
\* raw predictions of page p (1-based position in rawLog) that pass the filter
Surviving(p) ==
  {j \in DOMAIN rawLog[p] : rawLog[p][j].score >= 5000}

\* C6: on every page returned by processPage the detection at position k of
\* the sorted list has reading_order k, so the values are exactly 1..N with
\* N the number of predictions that passed the filter; while the page loop
\* still runs (before the sort) no detection has a reading_order yet.
C6_ReadingOrderIsPermutation ==
  /\ \A p \in DOMAIN results :
       LET d == results[p].detections IN
         /\ Len(d) = Cardinality(Surviving(p))
         /\ {d[k].reading_order : k \in DOMAIN d} = 1..Len(d)
         /\ \A k \in DOMAIN d : d[k].reading_order = k
  /\ pc = "page_loop" =>
       \A k \in DOMAIN detections : detections[k].reading_order = 0

\* a returned page of two detections that the sort has reordered, from a
\* page on which a third prediction was filtered out
C6_Witness ==
  \E p \in DOMAIN results :
    LET d == results[p].detections IN
      /\ Len(d) = 2
      /\ Len(rawLog[p]) > Len(d)
      /\ d[1].src > d[2].src

\* the row-tolerance rule of the Sequencer: a has to come before b
RowRuleBefore(a, b) ==
  IF Abs(a.center[2] - b.center[2]) > 20
  THEN a.center[2] < b.center[2]
  ELSE a.center[1] < b.center[1]

\* every pair of the detections d is numbered as the rule demands
RowRuleRespected(d) ==
  \A a \in DOMAIN d, b \in DOMAIN d :
    RowRuleBefore(d[a], d[b]) => d[a].reading_order < d[b].reading_order

\* the rule orders the detections d consistently: "before" is transitive and
\* so is "neither before the other"
RowRuleTie(a, b) == ~RowRuleBefore(a, b) /\ ~RowRuleBefore(b, a)

RowRuleConsistent(d) ==
  \A a \in DOMAIN d, b \in DOMAIN d, c \in DOMAIN d :
    /\ (RowRuleBefore(d[a], d[b]) /\ RowRuleBefore(d[b], d[c]))
         => RowRuleBefore(d[a], d[c])
    /\ (RowRuleTie(d[a], d[b]) /\ RowRuleTie(d[b], d[c])) => RowRuleTie(d[a], d[c])

\* C7 as claimed: on every returned page every pair of detections is numbered
\* by the row-tolerance rule (center y apart by more than 20: smaller y first;
\* otherwise smaller center x first).
C7_AllPairsFollowRowRule ==
  \A p \in DOMAIN results : RowRuleRespected(results[p].detections)

\* C7 amended: every pair is numbered by the row-tolerance rule on every
\* returned page whose detections the rule orders consistently.
C7_PairsFollowRowRuleWhenConsistent ==
  \A p \in DOMAIN results :
    RowRuleConsistent(results[p].detections)
      => RowRuleRespected(results[p].detections)

\* a consistently ordered page of three detections, on two rows with two
\* detections sharing a row, that the sort has reordered
C7_Witness ==
  \E p \in DOMAIN results :
    LET d == results[p].detections IN
      /\ Len(d) = 3
      /\ RowRuleConsistent(d)
      /\ d[1].src > d[2].src
      /\ Abs(d[1].center[2] - d[2].center[2]) <= 20
      /\ d[1].center[1] < d[2].center[1]
      /\ d[3].center[2] - d[1].center[2] > 20

\* C10 as claimed: every detection emitted by processPage has xmin < xmax,
\* ymin < ymax and positive width, height and area.
C10_NoDegenerateGeometry ==
  \A p \in DOMAIN results :
    \A k \in DOMAIN results[p].detections :
      LET d == results[p].detections[k] IN
        /\ d.bbox[1] < d.bbox[3]
        /\ d.bbox[2] < d.bbox[4]
        /\ d.width > 0
        /\ d.height > 0
        /\ d.area > 0

(***************************************************************************)
(* Properties of extractTextWithRetry                                      *)
(***************************************************************************)
\* a non-empty string that holds neither failure marker
GoodText(t) ==
  /\ Len(t) > 0
  /\ \A k \in DOMAIN t :
       t[k] \notin {" - text extraction failed]", " - OCR error]",
                    "extraction failed", "OCR error"}

\* C18: extractTextWithRetry makes at most maxRetries (2) attempts and
\* returns: the result of the first attempt that is non-empty and holds no
\* failure marker, with no attempt made after it, or the fallback placeholder
\* when every one of the maxRetries attempts was rejected; what it returns is
\* a non-empty string without failure marker.
C18_RetryReturnsFirstGoodText ==
  /\ [](Len(attemptLog) <= 2 /\ attempt <= 3)
  /\ [](pc = "retry_done" =>
          /\ GoodText(extracted)
          /\ extracted = extractTextWithRetry(ocrReady, region.elementType, region.ocr)
          /\ IF \E k \in DOMAIN attemptLog : GoodText(attemptLog[k])
             THEN /\ GoodText(attemptLog[Len(attemptLog)])
                  /\ \A k \in 1..(Len(attemptLog) - 1) : ~GoodText(attemptLog[k])
                  /\ extracted = attemptLog[Len(attemptLog)]
             ELSE /\ Len(attemptLog) = 2
                  /\ extracted = <<"[", region.elementType, " content (Page)]">>)
  /\ <>(pc = "retry_done")

\* the first attempt threw and the second one recognised text
C18_Witness ==
  /\ pc = "retry_done"
  /\ Len(attemptLog) = 2
  /\ attemptLog[1] = <<"[", "Text", " - OCR error]">>
  /\ extracted = <<"body">>

(***************************************************************************)
(* Properties of buildDocumentHierarchy                                    *)
(***************************************************************************)
Range(f) == {f[k] : k \in DOMAIN f}

IsPrefix(s, t) == Len(s) <= Len(t) /\ SubSeq(t, 1, Len(s)) = s

\* the kinds of node, told apart by their fields as in the JSON
HasLevel(r) == "level" \in DOMAIN nodes[r]
IsContentNode(r) == "type" \in DOMAIN nodes[r]
IsDefaultSection(r) == HasLevel(r) /\ "confidence" \notin DOMAIN nodes[r]
IsHeadingNode(r) == HasLevel(r) /\ "confidence" \in DOMAIN nodes[r]

ChildrenOf(r) == IF HasLevel(r) THEN nodes[r].children ELSE <<>>

\* the node that holds r in its children list; 0 when there is none
ParentOf(r) ==
  IF \E q \in DOMAIN nodes : r \in Range(ChildrenOf(q))
  THEN CHOOSE q \in DOMAIN nodes : r \in Range(ChildrenOf(q))
  ELSE 0

RECURSIVE AncestorsOf(_)
AncestorsOf(r) ==
  IF ParentOf(r) = 0 THEN {} ELSE {ParentOf(r)} \cup AncestorsOf(ParentOf(r))

SetMax(S) == CHOOSE x \in S : \A y \in S : y <= x

\* the forEach of buildDocumentHierarchy has consumed every detection
HierarchyBuilt == pc = "build_loop" /\ detIdx > Len(allDetections)

\* C1: after every processed detection the levels of the heading stack,
\* read from bottom to top, are strictly increasing (default sections
\* included).
C1_StackLevelsStrictlyIncrease ==
  \A k \in 1..(Len(headingStack) - 1) :
    LevelNum(nodes[headingStack[k]].level) < LevelNum(nodes[headingStack[k + 1]].level)

\* a stack of three with a default section at its bottom
C1_Witness ==
  /\ Len(headingStack) = 3
  /\ IsDefaultSection(headingStack[1])
  /\ IsHeadingNode(headingStack[3])

\* headings and default sections made before r whose level is smaller
SmallerLevelBefore(r) ==
  {q \in 1..(r - 1) : HasLevel(q) /\ LevelNum(nodes[q].level) < LevelNum(nodes[r].level)}

\* C2: a heading is a child of the nearest earlier heading (or default
\* section) of strictly smaller level, or a top-level entry of the forest when
\* there is none; none of its ancestors has the same or a larger level; two
\* Section-headers with only content between them have the same parent.
C2_HeadingUnderNearestSmallerLevel ==
  /\ \A r \in DOMAIN nodes :
       IsHeadingNode(r) =>
         /\ IF SmallerLevelBefore(r) = {}
            THEN ParentOf(r) = 0 /\ r \in Range(hierarchy)
            ELSE ParentOf(r) = SetMax(SmallerLevelBefore(r)) /\ r \notin Range(hierarchy)
         /\ \A a \in AncestorsOf(r) :
              LevelNum(nodes[a].level) < LevelNum(nodes[r].level)
  /\ \A r1 \in DOMAIN nodes, r2 \in DOMAIN nodes :
       ( /\ r1 < r2
         /\ IsHeadingNode(r1) /\ nodes[r1].level = "H2"
         /\ IsHeadingNode(r2) /\ nodes[r2].level = "H2"
         /\ \A q \in (r1 + 1)..(r2 - 1) : IsContentNode(q) )
       => ParentOf(r1) = ParentOf(r2)

\* two Section-headers, a Text between them under the first: the second
\* has closed the first and is its sibling
C2_Witness ==
  \E r1 \in DOMAIN nodes, r2 \in DOMAIN nodes :
    /\ r2 = r1 + 2
    /\ IsHeadingNode(r1) /\ nodes[r1].level = "H2"
    /\ IsHeadingNode(r2) /\ nodes[r2].level = "H2"
    /\ IsContentNode(r1 + 1) /\ ParentOf(r1 + 1) = r1
    /\ ParentOf(r2) = ParentOf(r1)
    /\ headingStack = <<r2>>

\* C3 as claimed: a default section holds content of its own page only; the
\* content of a later page met with no heading active goes to a fresh default
\* section of that page.
C3_DefaultSectionHoldsOnlyItsPage ==
  \A r \in DOMAIN nodes :
    IsDefaultSection(r) =>
      \A c \in Range(nodes[r].children) :
        IsContentNode(c) => nodes[c].page = nodes[r].page

\* C4: for detections that all lie on one page and are all content, the
\* forest is one default section of that page (id and title from the page
\* number, level H1) whose children are the detections in reading order.
C4_OnePageOfContentGivesOneDefaultSection ==
  ( /\ HierarchyBuilt
    /\ Len(allDetections) > 0
    /\ \A k \in DOMAIN allDetections :
         /\ allDetections[k].pageNumber = allDetections[1].pageNumber
         /\ allDetections[k].label \notin {"Title", "Section-header", "Page-header", "Caption"} )
  => /\ Len(hierarchy) = 1
     /\ Cardinality({r \in DOMAIN nodes : HasLevel(r)}) = 1
     /\ LET sec == nodes[hierarchy[1]]
            pg == ToString(allDetections[1].pageNumber)
        IN /\ DOMAIN sec = {"id", "title", "level", "page", "children"}
           /\ sec.id = <<"default_section_page_", pg>>
           /\ sec.title = <<"Content (Page ", pg, ")">>
           /\ sec.level = "H1"
           /\ sec.page = allDetections[1].pageNumber
           /\ Len(sec.children) = Len(allDetections)
           /\ \A k \in DOMAIN allDetections :
                /\ IsContentNode(sec.children[k])
                /\ nodes[sec.children[k]].id = allDetections[k].id
                /\ nodes[sec.children[k]].reading_order = k

\* a page of a Text and a Table, built into one section
C4_Witness ==
  /\ HierarchyBuilt
  /\ Len(allDetections) = 2
  /\ allDetections[1].label = "Text"
  /\ allDetections[2].label = "Table"
  /\ allDetections[1].pageNumber = allDetections[2].pageNumber
  /\ Len(hierarchy) = 1

\* pre-order traversal of the forest below the references refs
RECURSIVE Preorder(_)
Preorder(refs) ==
  IF refs = <<>> THEN <<>>
  ELSE <<Head(refs)>> \o Preorder(ChildrenOf(Head(refs))) \o Preorder(Tail(refs))

\* the ids met by the traversal, default sections skipped
PreorderIds ==
  LET visit == SelectSeq(Preorder(hierarchy), LAMBDA r : ~IsDefaultSection(r))
  IN [k \in DOMAIN visit |-> nodes[visit[k]].id]

ProcessedIds ==
  [k \in 1..(detIdx - 1) |-> allDetections[k].id]

\* a comes before b in document order
DocumentOrderBefore(a, b) ==
  \/ a.pageNumber < b.pageNumber
  \/ (a.pageNumber = b.pageNumber /\ a.reading_order < b.reading_order)

\* C8: every children list (and the forest) only grows at its end; a content
\* detection met with a non-empty stack is appended to the node on top of it;
\* the pre-order traversal, default sections skipped, visits the processed
\* detections in their order, which is increasing in (pageNumber,
\* reading_order).
C8_ChildrenAppendOnlyInReadingOrder ==
  /\ [](pc = "build_loop" =>
          /\ PreorderIds = ProcessedIds
          /\ \A k \in 1..(detIdx - 2) :
               DocumentOrderBefore(allDetections[k], allDetections[k + 1]))
  /\ [][ /\ IsPrefix(hierarchy, hierarchy')
         /\ \A r \in DOMAIN nodes :
              HasLevel(r) => IsPrefix(nodes[r].children, nodes'[r].children)
         /\ ( /\ pc = "build_loop"
              /\ detIdx' = detIdx + 1
              /\ ~IsHeadingLabel(allDetections[detIdx].label)
              /\ Len(headingStack) > 0 )
            => nodes'[headingStack[Len(headingStack)]].children
                 = Append(nodes[headingStack[Len(headingStack)]].children,
                          Len(nodes) + 1) ]_vars

\* a heading holding a Text and then a deeper heading of the next page
C8_Witness ==
  /\ HierarchyBuilt
  /\ \E r \in DOMAIN nodes, q \in DOMAIN nodes :
       /\ IsHeadingNode(r) /\ IsHeadingNode(q)
       /\ Len(nodes[r].children) = 2
       /\ IsContentNode(nodes[r].children[1])
       /\ nodes[r].children[2] = q
       /\ nodes[q].page > nodes[r].page

\* C9: the forest does not depend on the order in which the detections are
\* handed over: built from any permutation of the same detections it is the
\* forest built here, and the array (the allDetections view) is left in
\* increasing (pageNumber, reading_order) order.
C9_ForestIndependentOfSupplyOrder ==
  pc = "build_loop" =>
    /\ \A k \in 1..(Len(allDetections) - 1) :
         DocumentOrderBefore(allDetections[k], allDetections[k + 1])
    /\ HierarchyBuilt =>
         \A perm \in Permutations(DOMAIN allDetections) :
           buildDocumentHierarchy(Permuted(allDetections, perm))
             = [nodes |-> nodes, hierarchy |-> hierarchy]

\* a forest built from three detections of two pages handed over out of order
C9_Witness ==
  /\ HierarchyBuilt
  /\ resorted
  /\ Len(allDetections) = 3
  /\ allDetections[1].pageNumber < allDetections[3].pageNumber
  /\ Len(hierarchy) > 0

\* C16: every detection the forEach has consumed is exactly one node of the
\* forest (matched by id), a heading node if its label is Title,
\* Section-header, Page-header or Caption and a content node otherwise; the
\* only other nodes are default sections; every node is met exactly once in
\* the forest, so popping the stack loses or duplicates nothing.
C16_EveryDetectionIsOneNode ==
  pc = "build_loop" =>
    /\ \A k \in 1..(detIdx - 1) :
         LET d == allDetections[k]
             made == {r \in DOMAIN nodes : nodes[r].id = d.id}
         IN /\ Cardinality(made) = 1
            /\ \A r \in made :
                 IF d.label \in {"Title", "Section-header", "Page-header", "Caption"}
                 THEN IsHeadingNode(r)
                 ELSE IsContentNode(r)
    /\ \A r \in DOMAIN nodes :
         \/ IsDefaultSection(r)
         \/ \E k \in 1..(detIdx - 1) : allDetections[k].id = nodes[r].id
    /\ LET visit == Preorder(hierarchy)
       IN /\ Len(visit) = Len(nodes)
          /\ Range(visit) = DOMAIN nodes

\* a Text, a Section-header and a Title: the Title has popped the
\* Section-header and the default section, all four nodes are in the forest
C16_Witness ==
  /\ HierarchyBuilt
  /\ Len(allDetections) = 3
  /\ Len(nodes) = 4
  /\ Len(hierarchy) = 2
  /\ IsDefaultSection(hierarchy[1])
  /\ Len(nodes[hierarchy[1]].children) = 2
  /\ headingStack = <<hierarchy[2]>>

\* C17: once the first detection has been processed the heading stack is
\* never empty; so at most one default section is made, exactly when the
\* first detection in document order is content, and it is the first entry
\* of the forest.
C17_StackNeverEmptiesAgain ==
  pc = "build_loop" =>
    /\ detIdx > 1 => Len(headingStack) > 0
    /\ Cardinality({r \in DOMAIN nodes : IsDefaultSection(r)}) <= 1
    /\ (\E r \in DOMAIN nodes : IsDefaultSection(r))
         <=> (detIdx > 1 /\ allDetections[1].label
                \notin {"Title", "Section-header", "Page-header", "Caption"})
    /\ \A r \in DOMAIN nodes : IsDefaultSection(r) => hierarchy[1] = r

\* a Text, then a Title that pops the default section, then content of the
\* next page: it goes under the Title and no second default section is made
C17_Witness ==
  /\ HierarchyBuilt
  /\ Len(allDetections) = 3
  /\ IsDefaultSection(hierarchy[1])
  /\ Len(hierarchy) = 2
  /\ headingStack = <<hierarchy[2]>>
  /\ allDetections[2].label = "Title"
  /\ allDetections[3].label = "Text"
  /\ allDetections[3].pageNumber > allDetections[1].pageNumber

(***************************************************************************)
(* Properties of the run                                                   *)
(***************************************************************************)
\* how many records of the list s come from raw prediction j of page p; the
\* records of a list without pageNumber are those of page p already
FromPrediction(s, p, j) ==
  Cardinality({k \in DOMAIN s :
                 /\ s[k].src = j
                 /\ "pageNumber" \in DOMAIN s[k] => s[k].pageNumber = p})

\* the nodes of a serialized forest that were made from a detection, flattened
RECURSIVE TreeNodes(_)
TreeNodes(trees) ==
  IF trees = <<>> THEN <<>>
  ELSE LET t == Head(trees)
           below == IF "children" \in DOMAIN t THEN TreeNodes(t.children) ELSE <<>>
           self == IF "src" \in DOMAIN t
                   THEN <<[src |-> t.src, pageNumber |-> t.page]>> ELSE <<>>
       IN self \o below \o TreeNodes(Tail(trees))

\* the rows of detections_summary.csv, as records with pageNumber
CsvRecords(rows) ==
  [k \in DOMAIN rows |-> [src |-> rows[k].src, pageNumber |-> rows[k].Page]]

\* 1 when raw prediction j of page p has a score of at least 0.50, else 0
Kept(p, j) == IF rawLog[p][j].score >= 5000 THEN 1 ELSE 0

\* 1 when it is moreover of a label with a suggestions key, else 0
Suggested(p, j) ==
  IF Kept(p, j) = 1 /\ rawLog[p][j].id \in {3, 8, 9, 10} THEN 1 ELSE 0

\* C5: a raw prediction with a score under 0.50 has no record in any view
\* (page detections, allDetections, documentStructure, pages, the four
\* suggestion lists, the CSV rows); a prediction with a score of 0.50 or more
\* has exactly one detection on its page and exactly one record in every view
\* of all detections.
C5_ThresholdDecidesEveryView ==
  /\ \A p \in DOMAIN results : \A j \in DOMAIN rawLog[p] :
       FromPrediction(results[p].detections, p, j) = Kept(p, j)
  /\ pc = "page_loop" =>
       \A j \in 1..(predIdx - 1) :
         FromPrediction(detections, i + 1, j) = Kept(i + 1, j)
  /\ pc \in {"build_sort", "build_loop", "write_json", "write_csv", "saved"} =>
       \A p \in DOMAIN rawLog : \A j \in DOMAIN rawLog[p] :
         FromPrediction(allDetections, p, j) = Kept(p, j)
  /\ pc \in {"write_json", "write_csv", "saved"} =>
       \A p \in DOMAIN rawLog : \A j \in DOMAIN rawLog[p] :
         /\ FromPrediction(jsonOutput.allDetections, p, j) = Kept(p, j)
         /\ FromPrediction(jsonOutput.pages[p].detections, p, j) = Kept(p, j)
         /\ FromPrediction(TreeNodes(jsonOutput.documentStructure), p, j) = Kept(p, j)
         /\ FromPrediction(jsonOutput.ocrProcessingSuggestions.textElements
                             \o jsonOutput.ocrProcessingSuggestions.titleElements
                             \o jsonOutput.ocrProcessingSuggestions.tableElements
                             \o jsonOutput.ocrProcessingSuggestions.listElements,
                           p, j) = Suggested(p, j)
  /\ \A f \in files :
       /\ f.name = "document_layout_analysis.json" => f.content = jsonOutput
       /\ f.name = "detections_summary.csv" =>
            \A p \in DOMAIN rawLog : \A j \in DOMAIN rawLog[p] :
              FromPrediction(CsvRecords(f.content), p, j) = Kept(p, j)

\* both files written in a run in which a prediction with a score of exactly
\* 0.50 was kept and one with 0.4999 was dropped
C5_Witness ==
  /\ pc = "saved"
  /\ Cardinality(files) = 2
  /\ \E p \in DOMAIN rawLog : \E j \in DOMAIN rawLog[p], k \in DOMAIN rawLog[p] :
       /\ rawLog[p][j].score = 5000
       /\ rawLog[p][k].score = 4999
       /\ Len(results[p].detections) = Len(rawLog[p]) - 1

\* the detection d of page p was made from a region on which every attempt
\* of the text extraction throws or recognises no text
ExtractionFailed(p, d) ==
  /\ ocrReady
  /\ d.label # "Picture"
  /\ \A a \in 1..maxRetries :
       rawLog[p][d.src].ocr[a].throws \/ rawLog[p][d.src].ocr[a].text = <<>>

FailedExtractions ==
  { <<p, k>> \in (DOMAIN results) \X (1..MaxPreds) :
      /\ k \in DOMAIN results[p].detections
      /\ ExtractionFailed(p, results[p].detections[k]) }

\* C11 as claimed: a detection whose text extraction failed in every attempt
\* is kept with a non-empty placeholder as extractedText, and it is not
\* counted among the successful text extractions of the processing summary.
C11_FailedExtractionKeptNotCounted ==
  /\ \A pk \in FailedExtractions :
       Len(results[pk[1]].detections[pk[2]].extractedText) > 0
  /\ "totalTextExtractions" \in DOMAIN summary =>
       summary.totalTextExtractions
         <= summary.totalElements - Cardinality(FailedExtractions)

\* document_layout_analysis.json is among the files written
JsonWritten == \E f \in files : f.name = "document_layout_analysis.json"

\* C12 as claimed: a run that ends in the failure exit has written no JSON
\* document, whatever step threw.
C12_FailedRunLeavesNoJson == pc = "exit_1" => ~JsonWritten

\* C12 amended: the JSON document is written only after every page has been
\* processed and holds the document assembled from all of them; a run that
\* fails while a page is processed or before the JSON write has completed
\* ends in the failure exit with no JSON document written.  (A run that
\* fails later, in the CSV write or the final cleanup, ends in the failure
\* exit with the complete JSON document in place.)
C12_JsonOnlyFromCompleteRun ==
  /\ [](\A f \in files :
          f.name = "document_layout_analysis.json" =>
            /\ Len(results) = imagePaths
            /\ f.content = jsonOutput
            /\ f.content.metadata.totalPages = imagePaths
            /\ Len(f.content.pages) = imagePaths)
  /\ [][ (pc' = "exit_1" /\ pc \notin {"write_csv", "saved", "exit_1"})
           => ~JsonWritten' ]_vars

\* a run of two pages that failed on the second page and wrote nothing
C12_Witness ==
  /\ pc = "exit_1"
  /\ imagePaths = 2
  /\ Len(results) = 1
  /\ Len(results[1].detections) > 0
  /\ files = {}

\* C13 as claimed: every detection labelled Picture has the one fixed
\* placeholder as extractedText, whether or not the OCR worker is ready.
C13_PictureHasFixedPlaceholder ==
  \A p \in DOMAIN results :
    \A k \in DOMAIN results[p].detections :
      results[p].detections[k].label = "Picture" =>
        results[p].detections[k].extractedText = <<"[", "Picture", " - image content]">>

(***************************************************************************)
(* Properties of saveBoundingBoxesToJson                                   *)
(***************************************************************************)
\* jsonOutput has been assembled
Assembled == pc \in {"write_json", "write_csv", "saved", "exit_0", "exit_1"}
               /\ DOMAIN jsonOutput # {}

\* the list recs holds one reduced record, tagged priority, for each
\* detection labelled label, and nothing else
ReducedRecordsOf(recs, label, priority, extra) ==
  LET dets == SelectSeq(allDetections, LAMBDA d : d.label = label)
  IN /\ Len(recs) = Len(dets)
     /\ \A d \in Range(dets) :
          Cardinality({k \in DOMAIN recs : recs[k].id = d.id}) = 1
     /\ \A k \in DOMAIN recs :
          /\ DOMAIN recs[k] \ {"src"}
               = {"id", "pageNumber", "bbox", "bbox_normalized", "priority"} \cup extra
          /\ recs[k].priority = priority
          /\ \E d \in Range(dets) :
               /\ recs[k].id = d.id
               /\ recs[k].pageNumber = d.pageNumber
               /\ recs[k].bbox = d.bbox
               /\ recs[k].bbox_normalized = d.bbox_normalized

\* C14: the ocrProcessingSuggestions view has exactly the four keys; each
\* holds one reduced record per detection of its label (Text, Title, Table,
\* List-item) tagged high, highest, high, medium, with a processing note on
\* Table records only; a key without detections holds an empty list, and
\* detections of other labels are under no key.
C14_SuggestionsHaveFourKeys ==
  Assembled =>
    LET sug == jsonOutput.ocrProcessingSuggestions IN
      /\ DOMAIN sug = {"textElements", "titleElements", "tableElements", "listElements"}
      /\ ReducedRecordsOf(sug.textElements, "Text", "high", {})
      /\ ReducedRecordsOf(sug.titleElements, "Title", "highest", {})
      /\ ReducedRecordsOf(sug.tableElements, "Table", "high", {"processingNote"})
      /\ ReducedRecordsOf(sug.listElements, "List-item", "medium", {})
      /\ \A f \in files :
           f.name = "document_layout_analysis.json" =>
             f.content.ocrProcessingSuggestions = sug

\* a saved document with a Title, a Table and a Picture: two keys hold one
\* record each, two hold empty lists, the Picture is under none
C14_Witness ==
  /\ pc = "saved"
  /\ Len(allDetections) = 3
  /\ \E k \in DOMAIN allDetections : allDetections[k].label = "Picture"
  /\ Len(jsonOutput.ocrProcessingSuggestions.titleElements) = 1
  /\ Len(jsonOutput.ocrProcessingSuggestions.tableElements) = 1
  /\ jsonOutput.ocrProcessingSuggestions.textElements = <<>>
  /\ jsonOutput.ocrProcessingSuggestions.listElements = <<>>

\* C15: from page results without any detection the assembled document has
\* documentStructure = [], allDetections = [] and the four suggestion keys
\* with empty lists; in any document a page without detections has an empty
\* detections list in the pages view and no node in the forest.
C15_EmptyInputGivesEmptyViews ==
  Assembled =>
    /\ totalElements(results) = 0 =>
         /\ jsonOutput.documentStructure = <<>>
         /\ jsonOutput.allDetections = <<>>
         /\ DOMAIN jsonOutput.ocrProcessingSuggestions
              = {"textElements", "titleElements", "tableElements", "listElements"}
         /\ \A key \in DOMAIN jsonOutput.ocrProcessingSuggestions :
              jsonOutput.ocrProcessingSuggestions[key] = <<>>
    /\ Len(jsonOutput.pages) = Len(results)
    /\ \A p \in DOMAIN results :
         results[p].detections = <<>> =>
           /\ jsonOutput.pages[p].detections = <<>>
           /\ jsonOutput.pages[p].detectionsCount = 0
           /\ \A r \in DOMAIN nodes : nodes[r].page # results[p].pageNumber

\* a saved document of two pages, the first without detections
C15_Witness ==
  /\ pc = "saved"
  /\ Len(results) = 2
  /\ results[1].detections = <<>>
  /\ results[2].detections # <<>>
  /\ \E f \in files : f.name = "document_layout_analysis.json"

====
